---- MODULE Spec2Model ----
(***************************************************************************)
(* crossfig: the macro_rules! expansion of switch!, alias!, enabled! and   *)
(* disabled! (src/src/lib.rs), modelled as a token rewriting machine.      *)
(*                                                                         *)
(* A build compiles the defining crate U (an alias! block, with or without *)
(* code of the same crate that uses the aliases) and then, when the uses   *)
(* are in another crate, the consuming crate V (a switch! or an alias      *)
(* invocation).  `items` is the list of token trees of the crate being     *)
(* compiled, in the order of the text; every step is one macro rule        *)
(* applied to the invocation the compiler takes next, one cfg-stripping or *)
(* parsing pass of the compiler over an expansion, one resolution of the   *)
(* imports, or one finished token moving to the output.  `steps` counts    *)
(* the steps taken since the crate was handed to the compiler.             *)
(***************************************************************************)
EXTENDS Naturals, Sequences, FiniteSets, TLC

VARIABLES oracle, binding, items, out, log, phase, prog, steps, top

vars == <<oracle, binding, items, out, log, phase, prog, steps, top>>

(***************************************************************************)
(* Bounds of the model.                                                    *)
(***************************************************************************)
\* nodes (leaves and operators) over all arm conditions of an enumerated switch
MaxNodes == 3
\* nodes of an enumerated alias body, of the arms before a misplaced wildcard
\* and of the arms of a nested switch
MaxSmallNodes == 2

(***************************************************************************)
(* Token trees.                                                            *)
(***************************************************************************)
U == "U"
V == "V"
Units == {U, V}

\* cfg predicates whose value the build supplies (features, `test`)
Preds == {"p"}

\* an arm condition: `#[cfg(n)]`, a path `n`, not(..), all(..), any(..), `_`
Cfg(n) == [k |-> "cfg", n |-> n, es |-> <<>>]
Alias(n) == [k |-> "alias", n |-> n, es |-> <<>>]
Not(e) == [k |-> "not", n |-> "", es |-> <<e>>]
AllOf(es) == [k |-> "all", n |-> "", es |-> es]
AnyOf(es) == [k |-> "any", n |-> "", es |-> es]
Wild == [k |-> "wild", n |-> "", es |-> <<>>]

\* a brace group `{ body }`; id names a fragment the user wrote, 0 a generated one
Frag(id, body) == [k |-> "frag", id |-> id, body |-> body]
Code(id) == [k |-> "code", id |-> id]
CodeFrag(id) == Frag(id, <<Code(id)>>)
Arm(c, o) == [c |-> c, o |-> o]

\* `switch! { .. }`: br brace groups around the arms, sid the switch it continues
Switch(sid, br, arms) == [k |-> "switch", sid |-> sid, br |-> br, arms |-> arms]
\* `a! { payload }`
Call(a, sid, payload) == [k |-> "call", a |-> a, sid |-> sid, payload |-> payload]
\* `alias! { n: { body }, .. }`, comma: the last definition has a trailing comma
AliasDef(defs, comma) == [k |-> "alias", defs |-> defs, comma |-> comma]
Def(n, body) == [n |-> n, body |-> body]
Use(m, n) == [k |-> "use", m |-> m, n |-> n]
Kw(w) == [k |-> "kw", w |-> w]
Lit(v) == [k |-> "lit", v |-> v]
Open == [k |-> "open"]
Close == [k |-> "close"]
CompileError(sid) == [k |-> "error", sid |-> sid]

NoGuard == [k |-> "none", n |-> ""]
\* a token tree of the crate: its unit, the cfg attribute on it, and its place in
\* the order of expansion
Item(u, g, t) == [u |-> u, g |-> g, t |-> t, at |-> 0, q |-> "ready"]
Plain(u, ts) == [i \in 1..Len(ts) |-> Item(u, NoGuard, ts[i])]

(***************************************************************************)
(* The Condition Oracle: rustc's evaluation of one cfg predicate in the    *)
(* unit being compiled.  `all()` and `any()` are the constant predicates.  *)
(***************************************************************************)
\* a cfg predicate looked up in the consuming unit, whichever unit is compiled
CfgEvalAtUse(u, m) ==
    CASE m = "all()" -> TRUE
      [] m = "any()" -> FALSE
      [] OTHER -> oracle[V][m]

CfgEval(u, m) ==
    CASE m = "all()" -> TRUE
      [] m = "any()" -> FALSE
      [] OTHER -> oracle[u][m]

(***************************************************************************)
(* switch!: the patterns of its rules, numbered in source order.           *)
(***************************************************************************)
NumSwitchRules == 21

HeadCond(s) == s.arms[1].c
HeadOut(s) == s.arms[1].o
RestArms(s) == Tail(s.arms)

\* `$cond:path` takes a path with parenthesised arguments too: an operator
\* whose operands are paths themselves, as not(a), all() or any(all(), a),
\* parses as a path; #[cfg(..)] does not
RECURSIVE PathLike(_)
PathLike(e) ==
    \/ e.k = "alias"
    \/ /\ e.k \in {"not", "all", "any"}
       /\ \A i \in 1..Len(e.es) : PathLike(e.es[i])

\* the condition e fits what a pattern expects in its place: the literal
\* not( / all( / any( / #[cfg( / _ of that kind, or a `path` fragment
Fits(e, kind) == IF kind = "alias" THEN PathLike(e) ELSE e.k = kind

OpHead(s, op) == s.br = 0 /\ s.arms # <<>> /\ Fits(HeadCond(s), op)

InnerIs(s, kinds, more) ==
    /\ Len(HeadCond(s).es) >= 1
    /\ \E kind \in kinds : Fits(HeadCond(s).es[1], kind)
    /\ (Len(HeadCond(s).es) > 1) = more

SwitchMatches(r, s) ==
    CASE r = 1 -> s.br = 0 /\ s.arms = <<>>
      [] r = 2 -> s.br > 0
      [] r = 3 -> OpHead(s, "not") /\ Len(HeadCond(s).es) = 1
      [] r = 4 -> OpHead(s, "all") /\ HeadCond(s).es = <<>>
      [] r = 5 -> OpHead(s, "all") /\ InnerIs(s, {"not", "all", "any"}, FALSE)
      [] r = 6 -> OpHead(s, "all") /\ InnerIs(s, {"not", "all", "any"}, TRUE)
      [] r = 7 -> OpHead(s, "all") /\ InnerIs(s, {"cfg"}, FALSE)
      [] r = 8 -> OpHead(s, "all") /\ InnerIs(s, {"cfg"}, TRUE)
      [] r = 9 -> OpHead(s, "all") /\ InnerIs(s, {"alias"}, FALSE)
      [] r = 10 -> OpHead(s, "all") /\ InnerIs(s, {"alias"}, TRUE)
      [] r = 11 -> OpHead(s, "any") /\ HeadCond(s).es = <<>>
      [] r = 12 -> OpHead(s, "any") /\ InnerIs(s, {"not", "all", "any"}, FALSE)
      [] r = 13 -> OpHead(s, "any") /\ InnerIs(s, {"not", "all", "any"}, TRUE)
      [] r = 14 -> OpHead(s, "any") /\ InnerIs(s, {"cfg"}, FALSE)
      [] r = 15 -> OpHead(s, "any") /\ InnerIs(s, {"cfg"}, TRUE)
      [] r = 16 -> OpHead(s, "any") /\ InnerIs(s, {"alias"}, FALSE)
      [] r = 17 -> OpHead(s, "any") /\ InnerIs(s, {"alias"}, TRUE)
      [] r = 18 -> OpHead(s, "wild") /\ RestArms(s) = <<>> /\ HeadOut(s).k = "frag"
      [] r = 19 -> OpHead(s, "wild") /\ RestArms(s) # <<>>
      [] r = 20 -> OpHead(s, "cfg")
      [] r = 21 -> OpHead(s, "alias")
      [] OTHER -> FALSE

\* macro_rules! takes the first rule whose pattern matches; 0 when none does
SwitchRule(s) ==
    LET matching == {r \in 1..NumSwitchRules : SwitchMatches(r, s)}
    IN  IF matching = {} THEN 0
        ELSE CHOOSE r \in matching : \A q \in matching : r <= q

(***************************************************************************)
(* switch!: the transcription of each rule.                                *)
(***************************************************************************)
Sw(s, arms) == Switch(s.sid, 0, arms)
Block(s, arms) == Frag(0, <<Sw(s, arms)>>)

BracedOut(s) == <<Open, Switch(s.sid, s.br - 1, s.arms), Close>>

\* not(..) without the exchange of the two outcomes
NotOutStraight(s) ==
    <<Sw(s, <<Arm(HeadCond(s).es[1], HeadOut(s)),
              Arm(Wild, Block(s, RestArms(s)))>>)>>

NotOut(s) ==
    <<Sw(s, <<Arm(HeadCond(s).es[1], Block(s, RestArms(s))),
              Arm(Wild, HeadOut(s))>>)>>

AllEmptyOut(s) == <<Sw(s, <<Arm(Wild, HeadOut(s))>>)>>

\* all(x) and any(x) left as they are
InnerOutKept(s) == <<Sw(s, s.arms)>>

\* all(x) and any(x): the Inner Op, Inner Meta and Inner Alias rules
InnerOut(s) == <<Sw(s, <<Arm(HeadCond(s).es[1], HeadOut(s))>> \o RestArms(s))>>

\* all(x, rest..): the three `& More` rules of all
AllMoreOut(s) ==
    <<Sw(s, <<Arm(HeadCond(s).es[1],
                  Block(s, <<Arm(AllOf(Tail(HeadCond(s).es)), HeadOut(s))>>
                           \o RestArms(s)))>>
            \o RestArms(s))>>

\* any() taken for true
AnyEmptyOutTaken(s) == <<Sw(s, <<Arm(Wild, HeadOut(s))>>)>>

AnyEmptyOut(s) == <<Sw(s, RestArms(s))>>

\* any(op(..), rest..)
AnyOpMoreOut(s) ==
    <<Sw(s, <<Arm(HeadCond(s).es[1], HeadOut(s)),
              Arm(Wild, Block(s, <<Arm(AnyOf(Tail(HeadCond(s).es)), HeadOut(s))>>
                                 \o RestArms(s)))>>)>>

\* the remaining operands of any(..) tried before the first one
AnyMoreOutRestFirst(s) ==
    <<Sw(s, <<Arm(AnyOf(Tail(HeadCond(s).es)), HeadOut(s)),
              Arm(HeadCond(s).es[1], HeadOut(s))>>
            \o RestArms(s))>>

\* any(#[cfg(..)], rest..) and any(path, rest..)
AnyMoreOut(s) ==
    <<Sw(s, <<Arm(HeadCond(s).es[1], HeadOut(s)),
              Arm(AnyOf(Tail(HeadCond(s).es)), HeadOut(s))>>
            \o RestArms(s))>>

\* the wildcard fragment emitted with its braces
WildcardOutGroup(s) == <<HeadOut(s)>>

WildcardOut(s) == HeadOut(s).body

ArmsAfterWildcardOut(s) == <<CompileError(s.sid)>>

AliasArmOut(s) ==
    <<Call(HeadCond(s).n, s.sid,
           <<Kw("if"), Block(s, <<Arm(Wild, HeadOut(s))>>),
             Kw("else"), Block(s, RestArms(s))>>)>>

\* the two cfg attributes exchanged
CfgArmOutExchanged(u, s) ==
    <<Item(u, [k |-> "cfgnot", n |-> HeadCond(s).n], Sw(s, <<Arm(Wild, HeadOut(s))>>)),
      Item(u, [k |-> "cfg", n |-> HeadCond(s).n], Sw(s, RestArms(s)))>>

\* #[cfg(meta)] switch! { _ => out }   #[cfg(not(meta))] switch! { arms }
CfgArmOut(u, s) ==
    <<Item(u, [k |-> "cfg", n |-> HeadCond(s).n], Sw(s, <<Arm(Wild, HeadOut(s))>>)),
      Item(u, [k |-> "cfgnot", n |-> HeadCond(s).n], Sw(s, RestArms(s)))>>

SwitchOut(r, s) ==
    CASE r = 1 -> <<>>
      [] r = 2 -> BracedOut(s)
      [] r = 3 -> NotOut(s)
      [] r = 4 -> AllEmptyOut(s)
      [] r \in {5, 7, 9, 12, 14, 16} -> InnerOut(s)
      [] r \in {6, 8, 10} -> AllMoreOut(s)
      [] r = 11 -> AnyEmptyOut(s)
      [] r = 13 -> AnyOpMoreOut(s)
      [] r \in {15, 17} -> AnyMoreOut(s)
      [] r = 18 -> WildcardOut(s)
      [] r = 19 -> ArmsAfterWildcardOut(s)
      [] r = 21 -> AliasArmOut(s)

(***************************************************************************)
(* enabled! and disabled!: three rules each, in source order.              *)
(***************************************************************************)
IfElseShape(p) ==
    /\ Len(p) = 4
    /\ p[1] = Kw("if") /\ p[2].k = "frag"
    /\ p[3] = Kw("else") /\ p[4].k = "frag"

MacroRule(p) == IF p = <<>> THEN 1 ELSE IF IfElseShape(p) THEN 2 ELSE 3

\* enabled! passing both branches of if/else
EnabledOutBoth(p) ==
    CASE MacroRule(p) = 1 -> <<Lit(TRUE)>>
      [] MacroRule(p) = 2 -> p[2].body \o p[4].body
      [] MacroRule(p) = 3 -> p

EnabledOut(p) ==
    CASE MacroRule(p) = 1 -> <<Lit(TRUE)>>
      [] MacroRule(p) = 2 -> p[2].body
      [] MacroRule(p) = 3 -> p

\* disabled! passing a lone payload
DisabledOutPass(p) ==
    CASE MacroRule(p) = 1 -> <<Lit(FALSE)>>
      [] MacroRule(p) = 2 -> p[4].body
      [] MacroRule(p) = 3 -> p

DisabledOut(p) ==
    CASE MacroRule(p) = 1 -> <<Lit(FALSE)>>
      [] MacroRule(p) = 2 -> p[4].body
      [] MacroRule(p) = 3 -> <<>>

(***************************************************************************)
(* alias!: three rules.                                                    *)
(***************************************************************************)
DefSid == "alias"

AliasRule(t) ==
    IF t.defs = <<>> THEN 1
    ELSE IF Len(t.defs) = 1 /\ ~t.comma THEN 2 ELSE 3

AliasArmsOut(t) ==
    <<Switch(DefSid, 0,
             <<Arm(t.defs[1].body, Frag(0, <<Use("enabled", t.defs[1].n)>>)),
               Arm(Wild, Frag(0, <<Use("disabled", t.defs[1].n)>>))>>),
      AliasDef(Tail(t.defs), t.comma)>>

(***************************************************************************)
(* The programs that are compiled.                                         *)
(***************************************************************************)
RECURSIVE CondsN(_, _), ListsN(_, _)
\* the conditions with exactly n nodes over the leaves L
CondsN(L, n) ==
    IF n = 0 THEN {}
    ELSE (IF n = 1 THEN L ELSE {})
         \cup {Not(e) : e \in CondsN(L, n - 1)}
         \cup {AllOf(l) : l \in ListsN(L, n - 1)}
         \cup {AnyOf(l) : l \in ListsN(L, n - 1)}
\* the lists of conditions with exactly m nodes in total
ListsN(L, m) ==
    IF m = 0 THEN {<<>>}
    ELSE UNION {{<<e>> \o l : e \in CondsN(L, k), l \in ListsN(L, m - k)} : k \in 1..m}

CondsUpTo(L, n) == UNION {CondsN(L, k) : k \in 1..n}
ListsUpTo(L, n) == UNION {ListsN(L, k) : k \in 0..n}

AliasNames == {"enabled", "disabled", "a", "b", "c", "d", "e", "f", "parallel"}

\* arm i of a written switch carries the code fragment i
UserArms(conds) == [i \in 1..Len(conds) |-> Arm(conds[i], CodeFrag(i))]
MainSid == "outer"
InnerSid == "inner"
InnerArms(conds) == [i \in 1..Len(conds) |-> Arm(conds[i], CodeFrag(10 + i))]

Leaves == {Cfg("p"), Alias("a")}

\* unit U of the enumerated switches: alias! { pub a: { #[cfg(p)] } }
FeatureAlias == [defs |-> <<Def("a", Cfg("p"))>>, comma |-> FALSE]

WithOrWithoutWild == {<<>>, <<Wild>>}

PlainSwitches ==
    {Switch(MainSid, 0, UserArms(l \o w)) :
        l \in ListsUpTo(Leaves, MaxNodes), w \in WithOrWithoutWild}

BracedSwitches ==
    {Switch(MainSid, 1, UserArms(l \o w)) :
        l \in ListsUpTo(Leaves, 1), w \in WithOrWithoutWild}

\* a wildcard arm that is not the last arm
MisplacedWildSwitches ==
    {Switch(MainSid, 0, UserArms(l \o <<Wild>> \o t)) :
        l \in ListsUpTo(Leaves, MaxSmallNodes), t \in ListsN(Leaves \cup {Wild}, 1)}

InnerSwitches ==
    {Switch(InnerSid, 0, InnerArms(l \o w)) :
        l \in ListsUpTo(Leaves, MaxSmallNodes - 1),
        w \in WithOrWithoutWild \cup {<<Wild, Cfg("p")>>}}

\* a switch one of whose fragments is a switch
NestedSwitches ==
    {Switch(MainSid, 0, <<Arm(c, Frag(1, <<i>>)), Arm(Wild, CodeFrag(2))>>) :
        c \in CondsN(Leaves, 1), i \in InnerSwitches}
    \cup {Switch(MainSid, 0, <<Arm(c, CodeFrag(1)), Arm(Wild, Frag(2, <<i>>))>>) :
        c \in CondsN(Leaves, 1), i \in InnerSwitches}
    \cup {Switch(MainSid, 0, <<Arm(c, Frag(1, <<i>>))>>) :
        c \in CondsN(Leaves, 1), i \in InnerSwitches}

EnumeratedMains ==
    {<<s>> : s \in PlainSwitches \cup BracedSwitches \cup MisplacedWildSwitches
                   \cup NestedSwitches}

\* alias_tests, with the feature p in the place of `test`
AliasTests ==
    [defs |-> <<Def("a", Cfg("all()")), Def("b", Cfg("all()")), Def("c", Alias("a")),
                Def("d", AllOf(<<Alias("a"), Alias("b"), Alias("c")>>)),
                Def("e", AnyOf(<<Not(Alias("a")), Alias("b"), AllOf(<<Alias("c")>>),
                                 Cfg("p")>>)),
                Def("f", Alias("e"))>>,
     comma |-> TRUE]

\* forte_tests::cfg
ForteAlias == [defs |-> <<Def("parallel", Cfg("all()"))>>, comma |-> FALSE]

\* the conditions of switch_tests::tests, in order
TestConds ==
    {AllOf(<<>>), AnyOf(<<>>), Cfg("all()"), Not(Cfg("all()")),
     AnyOf(<<Cfg("all()")>>), AllOf(<<Cfg("all()")>>),
     Alias("enabled"), Not(Alias("enabled")), AnyOf(<<Alias("enabled")>>),
     AllOf(<<Alias("enabled")>>),
     Alias("disabled"), Not(Alias("disabled")), AnyOf(<<Alias("disabled")>>),
     AllOf(<<Alias("disabled")>>),
     AnyOf(<<Alias("disabled"), Alias("disabled"), Alias("enabled")>>),
     AllOf(<<Alias("enabled"), Alias("enabled"), Alias("enabled")>>),
     Not(Not(Alias("disabled"))),
     AllOf(<<AnyOf(<<AnyOf(<<Not(Alias("disabled")), Alias("enabled"),
                             Alias("disabled")>>)>>)>>),
     AnyOf(<<Not(Alias("enabled")), Alias("disabled"), AllOf(<<Alias("enabled")>>),
             Cfg("p")>>)}

TestMains == {<<Switch(MainSid, 0, UserArms(<<c, Wild>>))>> : c \in TestConds}

ForteMains == {<<Switch(MainSid, 0, UserArms(<<Alias("parallel"), Wild>>))>>}

\* alias! { a: { .. }, b: { .. a .. } } with every small body of a
RichAliases ==
    {[defs |-> <<Def("a", ba), Def("b", bb)>>, comma |-> cm] :
        ba \in CondsUpTo({Cfg("p")}, MaxSmallNodes),
        bb \in {Alias("a"), Not(Alias("a")), AllOf(<<Alias("a"), Cfg("p")>>),
                AnyOf(<<Alias("a"), Cfg("p")>>)},
        cm \in BOOLEAN}

\* what an alias is invoked with
Payloads ==
    {<<>>, <<Code(1)>>, <<Code(1), Code(2)>>,
     <<Kw("if"), CodeFrag(1), Kw("else"), CodeFrag(2)>>,
     <<Kw("if"), CodeFrag(1)>>}

\* the three call shapes of one alias, side by side
ThreeShapes(x) ==
    <<Call(x, MainSid, <<>>), Call(x, MainSid, <<Code(1)>>),
      Call(x, MainSid, <<Kw("if"), CodeFrag(2), Kw("else"), CodeFrag(3)>>)>>

\* uses written in the crate that defines the aliases
SameCrateUses ==
    {<<Switch(MainSid, 0, UserArms(<<Alias(x), Wild>>))>> : x \in {"a", "b"}}
    \cup {ThreeShapes(x) : x \in {"a", "b"}}

AliasUses ==
    SameCrateUses
    \cup {<<Call(x, MainSid, p)>> : x \in {"a", "b"}, p \in Payloads}

DefPrograms == {FeatureAlias, AliasTests, ForteAlias} \cup RichAliases

\* the units and the contents the consuming side of a build may have
MainsFor(d) ==
    CASE d = FeatureAlias -> {[unit |-> V, main |-> m] : m \in EnumeratedMains}
      [] d = AliasTests -> {[unit |-> U, main |-> m] : m \in TestMains}
      [] d = ForteAlias -> {[unit |-> U, main |-> m] : m \in ForteMains}
      [] OTHER -> {[unit |-> V, main |-> m] : m \in AliasUses}
                  \cup {[unit |-> U, main |-> m] : m \in SameCrateUses}

(***************************************************************************)
(* The machine.                                                            *)
(***************************************************************************)
Event(ev, n, sid, u, id) == [ev |-> ev, n |-> n, sid |-> sid, u |-> u, id |-> id]

Init ==
    /\ oracle \in [Units -> [Preds -> BOOLEAN]]
    /\ binding = [n \in AliasNames |->
                    IF n \in {"enabled", "disabled"} THEN n ELSE "unbound"]
    /\ items = <<>>
    /\ out = <<>>
    /\ log = <<>>
    /\ phase = "start"
    /\ prog = [defs |-> <<>>, comma |-> FALSE, unit |-> U, main |-> <<>>]
    /\ steps = 0
    /\ top = 0

(***************************************************************************)
(* The order of expansion.  The compiler keeps the invocations it has      *)
(* collected on a stack: it takes the one collected last (the leftmost of  *)
(* those collected together), puts the invocations of its expansion on top,*)
(* and sets aside a call whose path is an import not resolved yet.  When   *)
(* the stack is empty it resolves the imports and takes the calls set      *)
(* aside back, the last one set aside on top.  `at` is the step at which   *)
(* an item was collected or set aside, `q` tells whether it is set aside,  *)
(* `top` is the place of the invocation on top of the stack.               *)
(***************************************************************************)
IsInvocation(t) == t.k \in {"switch", "call", "alias"}
\* tokens that stay in the expanded code
IsFinal(t) == t.k \in {"code", "lit", "open", "close", "error"}

\* items under a cfg attribute the compiler has not evaluated yet
Guarded == {i \in 1..Len(items) : items[i].g # NoGuard}
\* tokens of an expansion that cannot begin an item or an expression
Unparsed == {i \in 1..Len(items) : items[i].t.k \in {"kw", "frag"}}
\* the invocations on the stack, and those set aside
Ready == {i \in 1..Len(items) : IsInvocation(items[i].t) /\ items[i].q = "ready"}
Waiting == {i \in 1..Len(items) : items[i].q = "wait"}
\* the last expansion is collected (cfg attributes evaluated, tokens parsed) and
\* the finished tokens in front are emitted
Settled ==
    /\ items # <<>>
    /\ Guarded = {} /\ Unparsed = {}
    /\ ~IsFinal(items[1].t)

\* the place in items of the invocation the compiler takes next, the top of
\* its stack; 0 when there is none to take
StackTop ==
    IF Settled /\ Ready # {}
    THEN CHOOSE i \in Ready :
            \A j \in Ready : \/ items[j].at < items[i].at
                             \/ items[j].at = items[i].at /\ i <= j
    ELSE 0
TopItem == items[top]

HeadIs(kind) == top # 0 /\ TopItem.t.k = kind

\* what is written in the defining crate next to the alias! block
SameCrateMains(d) == {<<>>} \cup {x.main : x \in {y \in MainsFor(d) : y.unit = U}}

\* the defining crate is compiled: its alias! block and, when the consuming
\* code is part of the same crate, that code before or after the block
CompileU ==
    /\ phase = "start"
    /\ \E d \in DefPrograms :
        \E m \in SameCrateMains(d), blockFirst \in BOOLEAN :
            /\ items' = IF blockFirst
                        THEN <<Item(U, NoGuard, AliasDef(d.defs, d.comma))>> \o Plain(U, m)
                        ELSE Plain(U, m) \o <<Item(U, NoGuard, AliasDef(d.defs, d.comma))>>
            /\ prog' = [prog EXCEPT !.defs = d.defs, !.comma = d.comma, !.main = m]
    /\ phase' = "U"
    /\ steps' = 0
    /\ UNCHANGED <<oracle, binding, out, log>>
    /\ top' = StackTop'

\* a consuming crate is compiled against the finished defining crate
CompileV ==
    /\ phase = "U"
    /\ items = <<>>
    /\ prog.main = <<>>
    /\ \E m \in {y \in MainsFor([defs |-> prog.defs, comma |-> prog.comma]) : y.unit = V} :
        /\ items' = Plain(m.unit, m.main)
        /\ prog' = [prog EXCEPT !.unit = m.unit, !.main = m.main]
    /\ phase' = "V"
    /\ steps' = 0
    /\ UNCHANGED <<oracle, binding, out, log>>
    /\ top' = StackTop'

\* the expansion `its` takes the place of the invocation on top of the stack
Spliced(its) ==
    SubSeq(items, 1, top - 1)
    \o [i \in 1..Len(its) |-> [its[i] EXCEPT !.at = steps + 1]]
    \o SubSeq(items, top + 1, Len(items))

\* rule r of switch! is the first whose pattern matches the invocation on top
SwitchHead(r) ==
    /\ HeadIs("switch")
    /\ SwitchMatches(r, TopItem.t)
    /\ \A q \in 1..(r - 1) : ~SwitchMatches(q, TopItem.t)
\* the items once rule r has rewritten that invocation
Rewritten(r) == Spliced(Plain(TopItem.u, SwitchOut(r, TopItem.t)))

\* `()`
SwitchEmpty ==
    /\ SwitchHead(1)
    /\ items' = Rewritten(1)
    /\ steps' = steps + 1
    /\ UNCHANGED <<oracle, binding, out, log, phase, prog>>
    /\ top' = StackTop'

\* `{ .. }`: the switch as an expression
SwitchBraced ==
    /\ SwitchHead(2)
    /\ items' = Rewritten(2)
    /\ steps' = steps + 1
    /\ UNCHANGED <<oracle, binding, out, log, phase, prog>>
    /\ top' = StackTop'

\* not(..)
SwitchNot ==
    /\ SwitchHead(3)
    /\ items' = Rewritten(3)
    /\ steps' = steps + 1
    /\ UNCHANGED <<oracle, binding, out, log, phase, prog>>
    /\ top' = StackTop'

\* all()
AllEmpty ==
    /\ SwitchHead(4)
    /\ items' = Rewritten(4)
    /\ steps' = steps + 1
    /\ UNCHANGED <<oracle, binding, out, log, phase, prog>>
    /\ top' = StackTop'

\* all(op(..))
AllInnerOp ==
    /\ SwitchHead(5)
    /\ items' = Rewritten(5)
    /\ steps' = steps + 1
    /\ UNCHANGED <<oracle, binding, out, log, phase, prog>>
    /\ top' = StackTop'

\* all(op(..), ..)
AllInnerOpMore ==
    /\ SwitchHead(6)
    /\ items' = Rewritten(6)
    /\ steps' = steps + 1
    /\ UNCHANGED <<oracle, binding, out, log, phase, prog>>
    /\ top' = StackTop'

\* all(#[cfg(..)])
AllInnerMeta ==
    /\ SwitchHead(7)
    /\ items' = Rewritten(7)
    /\ steps' = steps + 1
    /\ UNCHANGED <<oracle, binding, out, log, phase, prog>>
    /\ top' = StackTop'

\* all(#[cfg(..)], ..)
AllInnerMetaMore ==
    /\ SwitchHead(8)
    /\ items' = Rewritten(8)
    /\ steps' = steps + 1
    /\ UNCHANGED <<oracle, binding, out, log, phase, prog>>
    /\ top' = StackTop'

\* all(path)
AllInnerAlias ==
    /\ SwitchHead(9)
    /\ items' = Rewritten(9)
    /\ steps' = steps + 1
    /\ UNCHANGED <<oracle, binding, out, log, phase, prog>>
    /\ top' = StackTop'

\* all(path, ..)
AllInnerAliasMore ==
    /\ SwitchHead(10)
    /\ items' = Rewritten(10)
    /\ steps' = steps + 1
    /\ UNCHANGED <<oracle, binding, out, log, phase, prog>>
    /\ top' = StackTop'

\* any()
AnyEmpty ==
    /\ SwitchHead(11)
    /\ items' = Rewritten(11)
    /\ steps' = steps + 1
    /\ UNCHANGED <<oracle, binding, out, log, phase, prog>>
    /\ top' = StackTop'

\* any(op(..))
AnyInnerOp ==
    /\ SwitchHead(12)
    /\ items' = Rewritten(12)
    /\ steps' = steps + 1
    /\ UNCHANGED <<oracle, binding, out, log, phase, prog>>
    /\ top' = StackTop'

\* any(op(..), ..)
AnyInnerOpMore ==
    /\ SwitchHead(13)
    /\ items' = Rewritten(13)
    /\ steps' = steps + 1
    /\ UNCHANGED <<oracle, binding, out, log, phase, prog>>
    /\ top' = StackTop'

\* any(#[cfg(..)])
AnyInnerMeta ==
    /\ SwitchHead(14)
    /\ items' = Rewritten(14)
    /\ steps' = steps + 1
    /\ UNCHANGED <<oracle, binding, out, log, phase, prog>>
    /\ top' = StackTop'

\* any(#[cfg(..)], ..)
AnyInnerMetaMore ==
    /\ SwitchHead(15)
    /\ items' = Rewritten(15)
    /\ steps' = steps + 1
    /\ UNCHANGED <<oracle, binding, out, log, phase, prog>>
    /\ top' = StackTop'

\* any(path)
AnyInnerAlias ==
    /\ SwitchHead(16)
    /\ items' = Rewritten(16)
    /\ steps' = steps + 1
    /\ UNCHANGED <<oracle, binding, out, log, phase, prog>>
    /\ top' = StackTop'

\* any(path, ..)
AnyInnerAliasMore ==
    /\ SwitchHead(17)
    /\ items' = Rewritten(17)
    /\ steps' = steps + 1
    /\ UNCHANGED <<oracle, binding, out, log, phase, prog>>
    /\ top' = StackTop'

\* `path => output  arms`: the alias is invoked with if/else
AliasIntegration ==
    /\ SwitchHead(21)
    /\ items' = Rewritten(21)
    /\ steps' = steps + 1
    /\ UNCHANGED <<oracle, binding, out, log, phase, prog>>
    /\ top' = StackTop'

\* `_ => { output }` alone: the contents of the fragment are released
WildcardBranch ==
    /\ SwitchHead(18)
    /\ items' = Rewritten(18)
    /\ log' = Append(log, Event("mat", "", TopItem.t.sid, TopItem.u, HeadOut(TopItem.t).id))
    /\ steps' = steps + 1
    /\ UNCHANGED <<oracle, binding, out, phase, prog>>
    /\ top' = StackTop'

\* `_ => output` followed by arms: compile_error!
ArmsAfterWildcard ==
    /\ SwitchHead(19)
    /\ items' = Rewritten(19)
    /\ log' = Append(log, Event("error", "", TopItem.t.sid, TopItem.u, 0))
    /\ steps' = steps + 1
    /\ UNCHANGED <<oracle, binding, out, phase, prog>>
    /\ top' = StackTop'

\* `#[cfg(meta)] => output  arms`: two invocations under cfg attributes
CfgIntegration ==
    /\ SwitchHead(20)
    /\ items' = Spliced(CfgArmOut(TopItem.u, TopItem.t))
    /\ steps' = steps + 1
    /\ UNCHANGED <<oracle, binding, out, log, phase, prog>>
    /\ top' = StackTop'

\* an item kept whatever its cfg attribute says
GuardIgnored(it) == TRUE
GuardHolds(it) == (it.g.k = "cfg") = CfgEval(it.u, it.g.n)
Kept(it) == it.g = NoGuard \/ GuardHolds(it)

\* the compiler evaluates the cfg attributes of what a macro produced, and drops
\* every item whose attribute is false, before it expands anything inside
CfgStrip ==
    /\ Guarded # {}
    /\ items' = [i \in 1..Len(SelectSeq(items, Kept)) |->
                    [SelectSeq(items, Kept)[i] EXCEPT !.g = NoGuard]]
    /\ log' = log \o [i \in 1..Len(SelectSeq(items, LAMBDA it : it.g # NoGuard)) |->
                        LET it == SelectSeq(items, LAMBDA x : x.g # NoGuard)[i]
                        IN  Event(it.g.k, it.g.n, it.t.sid, it.u, 0)]
    /\ steps' = steps + 1
    /\ UNCHANGED <<oracle, binding, out, phase, prog>>
    /\ top' = StackTop'

\* the tokens of the expansion that holds the first token the parser refuses
Refused ==
    LET first == CHOOSE i \in Unparsed : \A j \in Unparsed : i <= j
    IN  {i \in first..Len(items) :
            \A j \in first..i : items[j].at = items[first].at}

\* "macro expansion ignores keyword `if` and any tokens following": the parser
\* refuses an expansion from the first token that begins no item; none of these
\* tokens reaches the expanded code
IgnoredTokens ==
    /\ Guarded = {}
    /\ Unparsed # {}
    /\ items' = [i \in 1..(Len(items) - Cardinality(Refused)) |->
                    IF \E j \in Refused : j <= i
                    THEN items[i + Cardinality(Refused)] ELSE items[i]]
    /\ log' = Append(log, Event("ignored", "", "", items[CHOOSE i \in Refused : TRUE].u, 0))
    /\ steps' = steps + 1
    /\ UNCHANGED <<oracle, binding, out, phase, prog>>
    /\ top' = StackTop'

\* `a! { payload }`: the path a resolves to the macro m, whose rule r applies
CallHead(m, r) ==
    /\ HeadIs("call")
    /\ binding[TopItem.t.a] = m
    /\ MacroRule(TopItem.t.payload) = r
Invoked == Event("alias", TopItem.t.a, TopItem.t.sid, TopItem.u, 0)

\* enabled!()
EnabledBool ==
    /\ CallHead("enabled", 1)
    /\ items' = Spliced(Plain(TopItem.u, EnabledOut(TopItem.t.payload)))
    /\ log' = Append(log, Invoked)
    /\ steps' = steps + 1
    /\ UNCHANGED <<oracle, binding, out, phase, prog>>
    /\ top' = StackTop'

\* enabled! { if { p } else { n } }
EnabledIfElse ==
    /\ CallHead("enabled", 2)
    /\ items' = Spliced(Plain(TopItem.u, EnabledOut(TopItem.t.payload)))
    /\ log' = Append(log, Invoked)
    /\ steps' = steps + 1
    /\ UNCHANGED <<oracle, binding, out, phase, prog>>
    /\ top' = StackTop'

\* enabled! { p }
EnabledPass ==
    /\ CallHead("enabled", 3)
    /\ items' = Spliced(Plain(TopItem.u, EnabledOut(TopItem.t.payload)))
    /\ log' = Append(log, Invoked)
    /\ steps' = steps + 1
    /\ UNCHANGED <<oracle, binding, out, phase, prog>>
    /\ top' = StackTop'

\* disabled!()
DisabledBool ==
    /\ CallHead("disabled", 1)
    /\ items' = Spliced(Plain(TopItem.u, DisabledOut(TopItem.t.payload)))
    /\ log' = Append(log, Invoked)
    /\ steps' = steps + 1
    /\ UNCHANGED <<oracle, binding, out, phase, prog>>
    /\ top' = StackTop'

\* disabled! { if { p } else { n } }
DisabledIfElse ==
    /\ CallHead("disabled", 2)
    /\ items' = Spliced(Plain(TopItem.u, DisabledOut(TopItem.t.payload)))
    /\ log' = Append(log, Invoked)
    /\ steps' = steps + 1
    /\ UNCHANGED <<oracle, binding, out, phase, prog>>
    /\ top' = StackTop'

\* disabled! { p }
DisabledDrop ==
    /\ CallHead("disabled", 3)
    /\ items' = Spliced(Plain(TopItem.u, DisabledOut(TopItem.t.payload)))
    /\ log' = Append(log, Invoked)
    /\ steps' = steps + 1
    /\ UNCHANGED <<oracle, binding, out, phase, prog>>
    /\ top' = StackTop'

\* `a! { .. }` where a is an import the compiler has not resolved yet: the call
\* is set aside
Defer ==
    /\ HeadIs("call")
    /\ binding[TopItem.t.a] = "unbound"
    /\ items' = [items EXCEPT ![top].q = "wait", ![top].at = steps + 1]
    /\ steps' = steps + 1
    /\ UNCHANGED <<oracle, binding, out, log, phase, prog>>
    /\ top' = StackTop'

AliasEmpty ==
    /\ HeadIs("alias")
    /\ AliasRule(TopItem.t) = 1
    /\ items' = Spliced(<<>>)
    /\ steps' = steps + 1
    /\ UNCHANGED <<oracle, binding, out, log, phase, prog>>
    /\ top' = StackTop'

AliasSingle ==
    /\ HeadIs("alias")
    /\ AliasRule(TopItem.t) = 2
    /\ items' = Spliced(<<Item(TopItem.u, NoGuard, AliasDef(TopItem.t.defs, TRUE))>>)
    /\ steps' = steps + 1
    /\ UNCHANGED <<oracle, binding, out, log, phase, prog>>
    /\ top' = StackTop'

AliasArms ==
    /\ HeadIs("alias")
    /\ AliasRule(TopItem.t) = 3
    /\ items' = Spliced(Plain(TopItem.u, AliasArmsOut(TopItem.t)))
    /\ steps' = steps + 1
    /\ UNCHANGED <<oracle, binding, out, log, phase, prog>>
    /\ top' = StackTop'

\* the `use` items among the items
Uses == {i \in 1..Len(items) : items[i].t.k = "use"}

\* the stack is empty: the compiler resolves the imports, so every
\* `use $crate::enabled as p;` emitted so far takes effect, and the calls set
\* aside are taken back
Bind ==
    /\ top = 0
    /\ Settled
    /\ binding' = [n \in AliasNames |->
                     IF \E i \in Uses : items[i].t.n = n
                     THEN items[CHOOSE i \in Uses : items[i].t.n = n].t.m
                     ELSE binding[n]]
    /\ items' = [i \in 1..Len(SelectSeq(items, LAMBDA it : it.t.k # "use")) |->
                    [SelectSeq(items, LAMBDA it : it.t.k # "use")[i] EXCEPT !.q = "ready"]]
    /\ steps' = steps + 1
    /\ UNCHANGED <<oracle, out, log, phase, prog>>
    /\ top' = StackTop'

\* a token that is no macro invocation stays in the expanded code
Emit ==
    /\ items # <<>>
    /\ Guarded = {} /\ Unparsed = {}
    /\ IsFinal(items[1].t)
    /\ out' = Append(out, items[1].t)
    /\ items' = Tail(items)
    /\ steps' = steps + 1
    /\ UNCHANGED <<oracle, binding, log, phase, prog>>
    /\ top' = StackTop'

Next ==
    \/ CompileU \/ CompileV
    \/ SwitchEmpty \/ SwitchBraced \/ SwitchNot
    \/ AllEmpty \/ AllInnerOp \/ AllInnerOpMore \/ AllInnerMeta \/ AllInnerMetaMore
    \/ AllInnerAlias \/ AllInnerAliasMore
    \/ AnyEmpty \/ AnyInnerOp \/ AnyInnerOpMore \/ AnyInnerMeta \/ AnyInnerMetaMore
    \/ AnyInnerAlias \/ AnyInnerAliasMore
    \/ WildcardBranch \/ ArmsAfterWildcard \/ CfgIntegration \/ AliasIntegration
    \/ CfgStrip \/ IgnoredTokens
    \/ EnabledBool \/ EnabledIfElse \/ EnabledPass
    \/ DisabledBool \/ DisabledIfElse \/ DisabledDrop
    \/ Defer
    \/ AliasEmpty \/ AliasSingle \/ AliasArms
    \/ Bind \/ Emit

Spec == Init /\ [][Next]_vars

\* the build of the consuming code is finished
Done == prog.main # <<>> /\ items = <<>>

(***************************************************************************)
(* The reference semantics the properties are stated against.              *)
(***************************************************************************)
\* the oracle's answer for predicate m in unit u
RefHolds(u, m) == IF m = "all()" THEN TRUE ELSE IF m = "any()" THEN FALSE ELSE oracle[u][m]

BodyOf(n) == prog.defs[CHOOSE i \in 1..Len(prog.defs) : prog.defs[i].n = n].body

\* the value a condition has in the defining unit U, aliases standing for their
\* bodies
RECURSIVE DefValue(_)
DefValue(e) ==
    CASE e.k = "cfg" -> RefHolds(U, e.n)
      [] e.k = "alias" ->
            IF e.n = "enabled" THEN TRUE
            ELSE IF e.n = "disabled" THEN FALSE
            ELSE DefValue(BodyOf(e.n))
      [] e.k = "not" -> ~DefValue(e.es[1])
      [] e.k = "all" -> \A i \in 1..Len(e.es) : DefValue(e.es[i])
      [] e.k = "any" -> \E i \in 1..Len(e.es) : DefValue(e.es[i])

\* Leaf = oracle value, alias = the value of its body where it is defined,
\* not = negation, all = conjunction, any = disjunction; the wildcard matches
\* always
RECURSIVE RefEval(_, _)
RefEval(e, u) ==
    CASE e.k = "cfg" -> RefHolds(u, e.n)
      [] e.k = "alias" -> DefValue(e)
      [] e.k = "not" -> ~RefEval(e.es[1], u)
      [] e.k = "all" -> \A i \in 1..Len(e.es) : RefEval(e.es[i], u)
      [] e.k = "any" -> \E i \in 1..Len(e.es) : RefEval(e.es[i], u)
      [] e.k = "wild" -> TRUE

\* the first arm whose condition is true, 0 when there is none
RefSelect(arms, u) ==
    LET hit == {i \in 1..Len(arms) : RefEval(arms[i].c, u)}
    IN  IF hit = {} THEN 0 ELSE CHOOSE i \in hit : \A j \in hit : i <= j

WildAt(arms) == {i \in 1..Len(arms) : arms[i].c.k = "wild"}
\* no wildcard, or one wildcard and it is the last arm
WellFormed(arms) == WildAt(arms) \subseteq {Len(arms)}

\* the consuming code consists of one switch!
MainIsSwitch == Len(prog.main) = 1 /\ prog.main[1].k = "switch"
MainArms == prog.main[1].arms
OnlyCode(arms) == \A i \in 1..Len(arms) : arms[i].o = CodeFrag(i)
Selected == RefSelect(MainArms, prog.unit)

\* the expanded code without the braces of the expression form
Unbraced(seq) == SelectSeq(seq, LAMBDA t : t.k \notin {"open", "close"})

\* the fragments of switch sid whose contents were released
Materialized(sid) ==
    {log[i].id : i \in {j \in 1..Len(log) :
                          log[j].ev = "mat" /\ log[j].sid = sid /\ log[j].id # 0}}

\* C1: a well-formed switch yields the fragment of the first arm whose
\* expression is true, and the wildcard fragment when no expression is true
C1_FirstTrueArm ==
    (Done /\ MainIsSwitch /\ WellFormed(MainArms) /\ Selected # 0)
        => /\ Materialized(MainSid) = {Selected}
           /\ OnlyCode(MainArms) => Unbraced(out) = <<Code(Selected)>>

\* two arms and a wildcard, the second arm chosen after the first was false
C1_Witness ==
    /\ Done /\ MainIsSwitch /\ OnlyCode(MainArms)
    /\ Len(MainArms) = 3 /\ WildAt(MainArms) = {3}
    /\ Selected = 2
    /\ out = <<Code(2)>>

\* the wildcard taken because both expressions are false
C1_WitnessWild ==
    /\ Done /\ MainIsSwitch /\ OnlyCode(MainArms)
    /\ Len(MainArms) = 3 /\ WildAt(MainArms) = {3}
    /\ Selected = 3
    /\ out = <<Code(3)>>

\* the switch commits to an arm: some condition is true, and the first true
\* one is not a wildcard with arms written after it
Commits ==
    /\ Selected # 0
    /\ ~(MainArms[Selected].c.k = "wild" /\ Selected < Len(MainArms))

\* every token tree that is an item of the expansion or part of its output
Released == {items[i].t : i \in 1..Len(items)} \cup {out[i] : i \in 1..Len(out)}

\* the token trees the user wrote inside the fragment of arm i
Contents(arms, i) == {arms[i].o.body[j] : j \in 1..Len(arms[i].o.body)}

\* C2: once a switch commits to an arm, the contents of every other fragment
\* (earlier, later, wildcard) never leave their braces: they are neither
\* emitted nor expanded at any step of the expansion
C2_OthersNeverMaterialized ==
    (MainIsSwitch /\ Commits)
        => /\ Materialized(MainSid) \subseteq {Selected}
           /\ \A i \in 1..Len(MainArms) :
                i # Selected => Contents(MainArms, i) \cap Released = {}

\* arms [(false, F1), (true, F2), (wildcard, F3)]: the result is F2 alone
C2_Witness ==
    /\ Done /\ MainIsSwitch /\ OnlyCode(MainArms)
    /\ Len(MainArms) = 3 /\ MainArms[3].c.k = "wild"
    /\ ~RefEval(MainArms[1].c, prog.unit) /\ RefEval(MainArms[2].c, prog.unit)
    /\ Materialized(MainSid) = {2}
    /\ out = <<Code(2)>>

HasError == \E i \in 1..Len(out) : out[i].k = "error"

\* C3: a switch with an arm written after a wildcard arm is rejected with an
\* error, whatever the arms before the wildcard are and whatever the oracle says
C3_ArmsAfterWildcardRejected ==
    (Done /\ MainIsSwitch /\ ~WellFormed(MainArms)) => HasError

\* C3, second half: the error comes before any evaluation, so nothing has been
\* consulted when the expansion of such a switch ends
C3_RejectedBeforeEvaluation ==
    (Done /\ MainIsSwitch /\ ~WellFormed(MainArms))
        => \A i \in 1..Len(log) :
              log[i].sid = MainSid => log[i].ev \notin {"cfg", "cfgnot", "alias"}

\* what the code does: the error is raised exactly when no arm before the
\* first wildcard is true
C3_RejectedWhenReached ==
    (Done /\ MainIsSwitch /\ ~WellFormed(MainArms) /\ OnlyCode(MainArms))
        => IF MainArms[Selected].c.k = "wild"
           THEN out = <<CompileError(MainSid)>>
           ELSE out = <<Code(Selected)>>

(***************************************************************************)
(* Aliases.                                                                *)
(***************************************************************************)
\* the consuming side refers to aliases only
MainIsAliasArm ==
    /\ MainIsSwitch /\ prog.main[1].br = 0 /\ OnlyCode(MainArms)
    /\ Len(MainArms) = 2
    /\ MainArms[1].c.k = "alias" /\ MainArms[2].c.k = "wild"
MainIsCalls ==
    /\ prog.main # <<>>
    /\ \A i \in 1..Len(prog.main) : prog.main[i].k = "call"

OracleEvents(u) ==
    {i \in 1..Len(log) : log[i].ev \in {"cfg", "cfgnot"} /\ log[i].u = u}

\* C4: an alias defined in U with body e has, wherever it is referenced, the
\* value e has under U's oracle state; a switch arm on it in another unit
\* follows that value, and the other unit's oracle is never consulted for it
C4_DefinitionSiteBinding ==
    /\ \A i \in 1..Len(prog.defs) :
          binding[prog.defs[i].n] # "unbound"
              => (binding[prog.defs[i].n] = "enabled") = DefValue(prog.defs[i].body)
    /\ (MainIsAliasArm \/ MainIsCalls) => OracleEvents(V) = {}
    /\ (Done /\ MainIsAliasArm)
          => out = <<Code(IF DefValue(MainArms[1].c) THEN 1 ELSE 2)>>

\* P is true in U and false in V; V's switch on U's alias {P} takes the arm
C4_Witness ==
    /\ Done /\ MainIsAliasArm /\ prog.unit = V
    /\ oracle[U]["p"] /\ ~oracle[V]["p"]
    /\ MainArms[1].c = Alias("a") /\ BodyOf("a") = Cfg("p")
    /\ out = <<Code(1)>>

(***************************************************************************)
(* Expressions.                                                            *)
(***************************************************************************)
MainIsTwoWay ==
    /\ MainIsSwitch /\ prog.main[1].br = 0 /\ OnlyCode(MainArms)
    /\ Len(MainArms) = 2
    /\ MainArms[1].c.k # "wild" /\ MainArms[2].c.k = "wild"

\* C5: the switch `e => F, _ => G` yields F exactly when e is true under the
\* reference boolean semantics, and G otherwise
C5_ExpressionSemantics ==
    (Done /\ MainIsTwoWay)
        => out = <<Code(IF RefEval(MainArms[1].c, prog.unit) THEN 1 ELSE 2)>>

RECURSIVE Depth(_)
Depth(e) ==
    IF e.es = <<>> THEN 1
    ELSE 1 + (CHOOSE d \in {Depth(e.es[i]) : i \in 1..Len(e.es)} :
                \A i \in 1..Len(e.es) : Depth(e.es[i]) <= d)

\* an expression nested four operators deep decides the switch
C5_Witness ==
    /\ Done /\ MainIsTwoWay
    /\ Depth(MainArms[1].c) >= 5
    /\ out = <<Code(1)>>

\* the leaves a short-circuiting, left to right evaluation consults, in order
RECURSIVE RefTrace(_, _), RefTraceList(_, _, _)
RefTrace(e, u) ==
    CASE e.k \in {"cfg", "alias"} -> <<<<e.k, e.n>>>>
      [] e.k = "not" -> RefTrace(e.es[1], u)
      [] e.k = "all" -> RefTraceList(e.es, u, TRUE)
      [] e.k = "any" -> RefTraceList(e.es, u, FALSE)
      [] e.k = "wild" -> <<>>
\* the operands are evaluated as long as they evaluate to `go`
RefTraceList(es, u, go) ==
    IF es = <<>> THEN <<>>
    ELSE RefTrace(es[1], u)
         \o (IF RefEval(es[1], u) = go THEN RefTraceList(Tail(es), u, go) ELSE <<>>)

RECURSIVE RefTraceArms(_, _)
RefTraceArms(arms, u) ==
    IF arms = <<>> THEN <<>>
    ELSE RefTrace(arms[1].c, u)
         \o (IF RefEval(arms[1].c, u) THEN <<>> ELSE RefTraceArms(Tail(arms), u))

\* what the expansion of switch sid consulted, in order
Consulted(sid) ==
    LET asked == SelectSeq(log, LAMBDA ev : ev.sid = sid /\ ev.ev \in {"cfg", "alias"})
    IN  [i \in 1..Len(asked) |-> <<asked[i].ev, asked[i].n>>]

\* the attribute #[cfg(not(m))] is evaluated right after #[cfg(m)] and only then
NegatedFollow ==
    \A i \in 1..Len(log) :
        log[i].ev = "cfgnot"
            => i > 1 /\ log[i - 1].ev = "cfg" /\ log[i - 1].n = log[i].n
                     /\ log[i - 1].sid = log[i].sid

\* C6: operands of all(..) are evaluated left to right up to the first false
\* one, operands of any(..) up to the first true one, and no operand after that
\* is evaluated: the predicates and aliases the expansion consults are exactly
\* those of the short-circuiting evaluation, in its order
C6_ShortCircuit ==
    /\ NegatedFollow
    /\ (Done /\ MainIsSwitch /\ WellFormed(MainArms))
          => Consulted(MainSid) = RefTraceArms(MainArms, prog.unit)

\* all(#[cfg(p)], a) with p false: a is never invoked
C6_Witness ==
    /\ Done /\ MainIsTwoWay
    /\ MainArms[1].c = AllOf(<<Cfg("p"), Alias("a")>>)
    /\ ~oracle[prog.unit]["p"]
    /\ Consulted(MainSid) = <<<<"cfg", "p">>>>
    /\ out = <<Code(2)>>

\* any(a, #[cfg(p)]) with a true: p is never consulted
C6_WitnessAny ==
    /\ Done /\ MainIsTwoWay
    /\ MainArms[1].c = AnyOf(<<Alias("a"), Cfg("p")>>)
    /\ binding["a"] = "enabled"
    /\ Consulted(MainSid) = <<<<"alias", "a">>>>
    /\ out = <<Code(1)>>

(***************************************************************************)
(* The call shapes of an alias.                                            *)
(***************************************************************************)
RefIfElse(p) ==
    /\ Len(p) = 4
    /\ p[1] = Kw("if") /\ p[2].k = "frag"
    /\ p[3] = Kw("else") /\ p[4].k = "frag"

\* the payload is code: a payload that is not, as `if { A }` without else, is
\* passed by a true alias like any other and then refused by the parser
IsCode(p) == \A i \in 1..Len(p) : p[i].k = "code"

\* what an alias of value b yields for a payload
ShapeResult(b, p) ==
    IF p = <<>> THEN <<Lit(b)>>
    ELSE IF RefIfElse(p) THEN (IF b THEN p[2].body ELSE p[4].body)
    ELSE (IF b /\ IsCode(p) THEN p ELSE <<>>)

\* the calls of a true alias with a payload the parser refuses
RefusedCalls ==
    {i \in 1..Len(prog.main) :
        /\ DefValue(Alias(prog.main[i].a))
        /\ prog.main[i].payload # <<>>
        /\ ~RefIfElse(prog.main[i].payload) /\ ~IsCode(prog.main[i].payload)}
IgnoredEvents == {i \in 1..Len(log) : log[i].ev = "ignored"}

RECURSIVE ShapeResults(_)
ShapeResults(calls) ==
    IF calls = <<>> THEN <<>>
    ELSE ShapeResult(DefValue(Alias(calls[1].a)), calls[1].payload)
         \o ShapeResults(Tail(calls))

\* C7: an alias of value b yields b for no payload, P or nothing for a fragment
\* P, A or B for `if { A } else { B }`, and the shapes agree on b
C7_CallShapes ==
    (Done /\ MainIsCalls)
        => /\ out = ShapeResults(prog.main)
           /\ Cardinality(IgnoredEvents) = Cardinality(RefusedCalls)

\* a true alias invoked in its three shapes
C7_Witness ==
    /\ Done /\ prog.main = ThreeShapes("a")
    /\ out = <<Lit(TRUE), Code(1), Code(2)>>

\* a false alias invoked in its three shapes
C7_WitnessFalse ==
    /\ Done /\ prog.main = ThreeShapes("b")
    /\ out = <<Lit(FALSE), Code(3)>>

(***************************************************************************)
(* No match, the sole wildcard, nesting.                                   *)
(***************************************************************************)
ErrorEvents == {i \in 1..Len(log) : log[i].ev = "error"}

\* C8: a switch without a wildcard arm none of whose expressions is true
\* expands to nothing and raises no error
C8_NoMatchIsEmpty ==
    (Done /\ MainIsSwitch /\ WildAt(MainArms) = {} /\ Selected = 0)
        => /\ Unbraced(out) = <<>>
           /\ ErrorEvents = {}
           /\ Materialized(MainSid) = {}

C8_Witness ==
    /\ Done /\ MainIsSwitch /\ WildAt(MainArms) = {} /\ Selected = 0
    /\ Len(MainArms) = 2
    /\ out = <<>>

MainIsSoleWildcard ==
    /\ MainIsSwitch /\ OnlyCode(MainArms)
    /\ Len(MainArms) = 1 /\ MainArms[1].c.k = "wild"

\* C9: a switch whose sole arm is a wildcard with fragment F yields F (inside
\* a block in the brace-wrapped form) and consults no predicate and no alias
C9_SoleWildcard ==
    MainIsSoleWildcard
        => /\ Consulted(MainSid) = <<>>
           /\ OracleEvents(prog.unit) \subseteq {i \in 1..Len(log) : log[i].sid # MainSid}
           /\ Done => /\ Unbraced(out) = <<Code(1)>>
                      /\ out = IF prog.main[1].br = 0 THEN <<Code(1)>>
                               ELSE <<Open, Code(1), Close>>

\* the brace-wrapped form
C9_Witness ==
    /\ Done /\ MainIsSoleWildcard /\ prog.main[1].br = 1
    /\ out = <<Open, Code(1), Close>>

\* the arm whose fragment is a switch
Hosts == {i \in 1..Len(MainArms) :
            Len(MainArms[i].o.body) = 1 /\ MainArms[i].o.body[1].k = "switch"}
MainIsNested == MainIsSwitch /\ Hosts # {}
Host == CHOOSE i \in Hosts : TRUE
Inner == MainArms[Host].o.body[1]

InnerEvents == {i \in 1..Len(log) : log[i].sid = InnerSid}
\* the outer switch released the fragment of arm h before event i
CommittedBefore(h, i) ==
    \E j \in 1..(i - 1) :
        log[j].ev = "mat" /\ log[j].sid = MainSid /\ log[j].id = MainArms[h].o.id
InnerInvoked ==
    \E i \in 1..Len(items) :
        items[i].t.k \in {"switch", "call"} /\ items[i].t.sid = InnerSid

InnerResult ==
    IF RefSelect(Inner.arms, prog.unit) = 0 THEN <<>>
    ELSE <<Code(10 + RefSelect(Inner.arms, prog.unit))>>

\* C10: a switch inside a fragment of an outer switch takes no step of its own
\* (nothing consulted, no alias invoked, no error raised) before the outer switch
\* has committed to its arm, none at all when the outer switch commits to another
\* arm, and when its arm is chosen the result is its own selection
C10_NestedDeferred ==
    MainIsNested
        => /\ \A i \in InnerEvents : CommittedBefore(Host, i)
           /\ InnerInvoked => CommittedBefore(Host, Len(log) + 1)
           /\ Selected # Host => InnerEvents = {} /\ ~InnerInvoked
           /\ (Done /\ Selected = Host /\ WellFormed(Inner.arms))
                 => out = InnerResult

\* the inner switch consulted the oracle after the commit and chose its arm
C10_Witness ==
    /\ Done /\ MainIsNested /\ Selected = Host
    /\ RefSelect(Inner.arms, prog.unit) = 1
    /\ \E i \in InnerEvents : log[i].ev = "cfg"
    /\ out = <<Code(11)>>

\* a nested switch with arms after its wildcard, in an arm that is not chosen
C10_WitnessSkipped ==
    /\ Done /\ MainIsNested /\ Selected # Host /\ Selected # 0
    /\ ~WellFormed(Inner.arms)
    /\ InnerEvents = {}
    /\ out = <<Code(Selected)>>

(***************************************************************************)
(* Totality and termination of the expansion.                              *)
(***************************************************************************)
RECURSIVE Sum(_)
Sum(ns) == IF ns = <<>> THEN 0 ELSE ns[1] + Sum(Tail(ns))

\* the leaves and operators of a condition
RECURSIVE CondSize(_)
CondSize(e) == 1 + Sum([i \in 1..Len(e.es) |-> CondSize(e.es[i])])

\* the size of a written token tree: every condition node, every arm, every
\* brace group and every token in it counts one
RECURSIVE TokenSize(_)
TokenSize(t) ==
    CASE t.k = "switch" ->
            1 + t.br + Sum([i \in 1..Len(t.arms) |->
                              CondSize(t.arms[i].c) + TokenSize(t.arms[i].o)])
      [] t.k = "frag" -> 1 + Sum([i \in 1..Len(t.body) |-> TokenSize(t.body[i])])
      [] OTHER -> 1

MainSize == Sum([i \in 1..Len(prog.main) |-> TokenSize(prog.main[i])])

\* the rules of switch! whose pattern matches the invocation s
Applicable(s) == {r \in 1..NumSwitchRules : SwitchMatches(r, s)}

\* every switch! invocation waiting to be expanded, under a cfg attribute or not
Pending == {i \in 1..Len(items) : items[i].t.k = "switch"}

\* the expanded code is nothing, one piece of user code or the compile error,
\* inside the braces of the expression form if the switch was written with them
FinalShape ==
    /\ Len(Unbraced(out)) <= 1
    /\ \A i \in 1..Len(Unbraced(out)) : Unbraced(out)[i].k \in {"code", "error"}
    /\ out \in {Unbraced(out), <<Open>> \o Unbraced(out) \o <<Close>>}

\* the definitions of the alias! block compiled in the same crate as the switch
DefsSize ==
    IF prog.unit = U
    THEN Sum([i \in 1..Len(prog.defs) |-> 4 + CondSize(prog.defs[i].body)])
    ELSE 0

\* the steps an expansion of the written unit takes at most: every condition
\* node costs at most a rule of switch!, an invocation of the alias or a cfg
\* pass, and the release of the block the rule wrapped the rest in
StepBound == 4 * (MainSize + DefsSize)

\* C11 as stated: the expansion of a switch is total and terminates, and at
\* every step exactly one rule of switch! applies, that is, exactly one rule
\* pattern matches every invocation that arises
C11_ExactlyOneRule ==
    /\ items # <<>> => ENABLED Next
    /\ \A i \in Pending : Cardinality(Applicable(items[i].t)) = 1
    /\ MainIsSwitch => steps <= StepBound
    /\ (Done /\ MainIsSwitch) => FinalShape

\* C11: the expansion of a switch is total and terminates. Whatever the
\* oracle state, a step is possible until nothing is left to expand, at least
\* one rule of switch! matches every invocation that arises and the first of
\* them in source order is the rule applied (the patterns with `$cond:path`
\* match operator conditions as well), the expansion takes at most StepBound
\* steps, and its result is a single fragment, the empty output or the
\* arms-after-wildcard error
C11_TotalAndTerminating ==
    /\ items # <<>> => ENABLED Next
    /\ \A i \in Pending :
          /\ SwitchRule(items[i].t) \in Applicable(items[i].t)
          /\ \A r \in Applicable(items[i].t) : SwitchRule(items[i].t) <= r
    /\ MainIsSwitch => steps <= StepBound
    /\ (Done /\ MainIsSwitch) => FinalShape

\* a finished expansion of a well-formed switch on nested operators that took
\* more steps than the switch has tokens and selected a fragment; along the
\* way rules 5, 9 and 21 all matched all(all(..)) and the first was applied
C11_Witness ==
    /\ Done /\ MainIsSwitch /\ WellFormed(MainArms)
    /\ \E i \in 1..Len(MainArms) :
          /\ MainArms[i].c.k = "all" /\ Len(MainArms[i].c.es) = 1
          /\ Applicable(Switch(MainSid, 0, <<MainArms[i]>>)) = {5, 9, 21}
    /\ \E i \in 1..Len(MainArms) : Depth(MainArms[i].c) >= 3
    /\ steps > MainSize
    /\ Len(out) = 1 /\ out[1].k = "code"

\* a finished expansion with the empty output
C11_WitnessEmpty ==
    /\ Done /\ MainIsSwitch /\ WellFormed(MainArms) /\ MainArms # <<>>
    /\ steps > 0
    /\ out = <<>>

\* a finished expansion whose result is the arms-after-wildcard error
C11_WitnessError ==
    /\ Done /\ MainIsSwitch /\ ~WellFormed(MainArms)
    /\ steps > 0
    /\ out = <<CompileError(MainSid)>>

====
